---- MODULE Spec2Model ----
(***************************************************************************)
(* Model of the in-memory task store of src/src/taskManager.js.            *)
(*                                                                         *)
(* JavaScript objects are references, so task objects live in a heap and   *)
(* the store's array `tasks` holds references into it.  The value an       *)
(* operation hands back to its caller is kept in `ret`; objects no longer  *)
(* reachable from the store or from `ret` are garbage and leave the heap.  *)
(* The routes of app.js and the handlers of middleware.js stand in front   *)
(* of the store; `res` is the response to the last request.                *)
(***************************************************************************)
EXTENDS Integers, Sequences, FiniteSets, TLC

VARIABLES
    tasks,      \* taskManager.js:18  the store's array: sequence of object references
    heap,       \* the task objects, by reference
    nextRef,    \* allocation counter: the n-th created object has reference n
    now,        \* the wall clock read by Date.now() / new Date(), in ms
    ret,        \* what the last call returned (or threw) to its caller
    muts,       \* number of writes the caller has made to returned values
    res,        \* the HTTP response to the last request
    arr,        \* taskUtils.js: the array a caller hands to a utility
    out,        \* taskUtils.js: what the last utility call returned (or threw)
    loop,       \* app.js: the requests in flight and the handler that is running
    tmo,        \* middleware.js: requests under requestTimeout and their timers
    proc        \* server.js: the process, its server and its shutdown timers

vars == <<tasks, heap, nextRef, now, ret, muts, res, arr, out, loop, tmo, proc>>

\* what lies beyond the store, and beyond the store and its routes
beyondStore == <<res, arr, out, loop, tmo, proc>>
beyondApi == <<arr, out, loop, tmo, proc>>

----------------------------------------------------------------------------
(* Bounds *)

MaxCreates == 2     \* successful createTask calls in one run
MaxClock == 1       \* clock ticks in one run
MaxMutations == 1   \* caller writes to returned values in one run
MaxStatTasks == 40  \* tasks in the store when statistics are requested

MaxTitleLength == 200   \* validation.js:36

ClockStart == (60 * 1000) - 1   \* one tick before a minute boundary
NoRef == 0
CopyBase == MaxCreates          \* references of snapshot copies start above the store's

----------------------------------------------------------------------------
(* Strings are sequences of one-character strings. *)

WhiteSpace == {" ", "\t"}

RECURSIVE trimStart(_)
trimStart(s) ==
    IF s = <<>> THEN s
    ELSE IF Head(s) \in WhiteSpace THEN trimStart(Tail(s)) ELSE s

RECURSIVE trimEnd(_)
trimEnd(s) ==
    IF s = <<>> THEN s
    ELSE IF s[Len(s)] \in WhiteSpace THEN trimEnd(SubSeq(s, 1, Len(s) - 1)) ELSE s

\* String.prototype.trim
trim(s) == trimEnd(trimStart(s))

Repeat(c, n) == [i \in 1..n |-> c]

----------------------------------------------------------------------------
(* JavaScript values a caller can pass as a title. *)

JSValue(tag, str, num) == [tag |-> tag, str |-> str, num |-> num]
JSUndefined == JSValue("undefined", <<>>, 0)
JSNull == JSValue("null", <<>>, 0)
JSNumber(n) == JSValue("number", <<>>, n)
JSString(s) == JSValue("string", s, 0)

\* typeof v
typeOf(v) == IF v.tag = "null" THEN "object" ELSE v.tag

\* !v
Falsy(v) ==
    \/ v.tag \in {"undefined", "null"}
    \/ v.tag = "number" /\ v.num = 0
    \/ v.tag = "string" /\ v.str = <<>>

\* titles every caller of the model passes: missing, blank, and a valid one
\* with white space around it
ShortTitleInputs ==
    { JSUndefined, JSString(<<" ", "\t">>), JSString(<<" ", "a", "\t">>) }

\* ... and the other rejected kinds, and titles at and beyond the length limit
TitleInputs ==
    ShortTitleInputs \cup
    { JSNull, JSNumber(0), JSNumber(123), JSString(<<>>),
      JSString(<<"b", " ", "c">>),
      JSString(<<" ">> \o Repeat("a", MaxTitleLength) \o <<" ">>),
      JSString(Repeat("a", MaxTitleLength + 1)) }

\* Statuses a caller can pass: the two legal strings, other strings, undefined.
StatusValue(tag, val) == [tag |-> tag, val |-> val]
StatusInputs ==
    { StatusValue("string", "pending"), StatusValue("string", "completed"),
      StatusValue("string", "invalid-status"), StatusValue("string", "Completed"),
      StatusValue("undefined", "") }

----------------------------------------------------------------------------
(* Date and id formatting. *)

\* new Date(t).toISOString(): the minute, second and millisecond fields of the
\* string (the fields above the minute do not change within a run).
toISOString(t) == << t \div 60000, (t \div 1000) % 60, t % 1000 >>

\* Order of two ISO strings (field by field, most significant first).
IsoLeq(a, b) ==
    \/ a[1] < b[1]
    \/ a[1] = b[1] /\ a[2] < b[2]
    \/ a[1] = b[1] /\ a[2] = b[2] /\ a[3] <= b[3]

\* two outcomes of Math.random().toString(36).substr(2, 9)
RandSuffixes == {"i", "4fzzzxjyl"}

\* `task-${Date.now()}-${Math.random().toString(36).substr(2, 9)}`
generateId(t, r) == << "task", t, r >>

NonExistentId == << "non-existent-id", 0, "" >>

----------------------------------------------------------------------------
(* Validation and the object literals of taskManager.js. *)

\* taskManager.js:40   !title || typeof title !== 'string' || title.trim() === ''
isInvalidTitleNoTrim(title) ==
    Falsy(title) \/ typeOf(title) # "string"

isInvalidTitle(title) ==
    Falsy(title) \/ typeOf(title) # "string" \/ trim(title.str) = <<>>

\* taskManager.js:45-51
newTaskUntrimmed(id, str, created, updated) ==
    [ id |-> id, title |-> str, status |-> "pending",
      createdAt |-> toISOString(created), updatedAt |-> toISOString(updated) ]

newTask(id, str, created, updated) ==
    [ id |-> id, title |-> trim(str), status |-> "pending",
      createdAt |-> toISOString(created), updatedAt |-> toISOString(updated) ]

validStatuses == {"pending", "completed"}

\* taskManager.js:100   validStatuses.includes(status)
includesStatusAnyString(status) == status.tag = "string"

includesStatusIgnoreCase(status) ==
    status.tag = "string" /\ status.val \in validStatuses \cup {"Completed"}

includesStatus(status) == status.tag = "string" /\ status.val \in validStatuses

\* taskManager.js:113-114
setStatusTouchCreated(task, status, t) ==
    [task EXCEPT !.status = status, !.createdAt = toISOString(t)]

setStatusNoRefresh(task, status, t) == [task EXCEPT !.status = status]

setStatusSticky(task, status, t) ==
    [task EXCEPT !.status = IF @ = "completed" THEN @ ELSE status,
                 !.updatedAt = toISOString(t)]

setStatus(task, status, t) ==
    [task EXCEPT !.status = status, !.updatedAt = toISOString(t)]

\* tasks.find(t => t.id === taskId) / tasks.findIndex: first match, 0 for none
findIndexOrFirst(h, ts, taskId) ==
    IF \E i \in 1..Len(ts) : h[ts[i]].id = taskId
    THEN CHOOSE i \in 1..Len(ts) :
            /\ h[ts[i]].id = taskId
            /\ \A j \in 1..(i - 1) : h[ts[j]].id # taskId
    ELSE IF Len(ts) > 0 THEN 1 ELSE 0

findIndex(h, ts, taskId) ==
    IF \E i \in 1..Len(ts) : h[ts[i]].id = taskId
    THEN CHOOSE i \in 1..Len(ts) :
            /\ h[ts[i]].id = taskId
            /\ \A j \in 1..(i - 1) : h[ts[j]].id # taskId
    ELSE 0

\* taskManager.js:106-114: the objects once the first task with this id has
\* been given the status at time t
updatedHeap(h, ts, taskId, status, t) ==
    LET i == findIndex(h, ts, taskId)
    IN  [h EXCEPT ![ts[i]] = setStatus(@, status, t)]

\* tasks.push(task)
unshift(ts, r) == <<r>> \o ts

push(ts, r) == Append(ts, r)

\* tasks.splice(index, 1): the array without its index-th element
splice(ts, index) ==
    [ i \in 1..(Len(ts) - 1) |-> IF i < index THEN ts[i] ELSE ts[i + 1] ]

CopyRef(i) == CopyBase + i

\* taskManager.js:68   tasks.map(task => ({ ...task }))
\* a new array of new objects; the result names the array's items and the heap
\* holding them
getTasksNoCopy(h, ts) == [ items |-> ts, heap |-> h ]

getTasks(h, ts) ==
    [ items |-> [ i \in 1..Len(ts) |-> CopyRef(i) ],
      heap  |-> [ r \in DOMAIN h \cup { CopyRef(i) : i \in 1..Len(ts) } |->
                    IF r > CopyBase THEN h[ts[r - CopyBase]] ELSE h[r] ] ]

\* taskManager.js:153
getTaskCount(ts) == Len(ts)

\* taskManager.js:161
getCompletedTaskCount(h, ts) ==
    Cardinality({ i \in 1..Len(ts) : h[ts[i]].status = "completed" })

----------------------------------------------------------------------------
(* Return values and reachability. *)

Ret(op, err, kind, ref, items, num) ==
    [ op |-> op, err |-> err, kind |-> kind, ref |-> ref, items |-> items,
      num |-> num ]

Threw(op, err) == Ret(op, err, "none", NoRef, <<>>, 0)
RetTask(op, r) == Ret(op, "none", "task", r, <<>>, 0)
RetNullThrows(op) == Threw(op, "NotFound")
RetNull(op) == Ret(op, "none", "null", NoRef, <<>>, 0)
RetList(op, items) == Ret(op, "none", "list", NoRef, items, 0)
RetNumber(op, n) == Ret(op, "none", "number", NoRef, <<>>, n)
RetVoid(op) == Ret(op, "none", "none", NoRef, <<>>, 0)

Range(s) == { s[i] : i \in 1..Len(s) }

Reachable(ts, rv) ==
    Range(ts) \cup Range(rv.items) \cup (IF rv.kind = "task" THEN {rv.ref} ELSE {})

\* garbage collection: keep the objects the store or the caller can reach
Collect(h, ts, rv) == [ r \in (DOMAIN h) \cap Reachable(ts, rv) |-> h[r] ]

\* what list() reports: the stored objects' values, in the array's order
StoreView(h, ts) == [ i \in 1..Len(ts) |-> h[ts[i]] ]

KnownIds == { heap[r].id : r \in DOMAIN heap } \cup { NonExistentId }

----------------------------------------------------------------------------
(* IEEE-754 double arithmetic, as far as app.js:178 needs it.  A positive
   double is a 53-bit significand (most significant bit first, leading bit 1)
   and an exponent: its value is the significand, read as an integer, times
   2^exp. *)

SignificandBits == 53

Zeros(k) == [ i \in 1..k |-> 0 ]

\* the first k bits of the binary expansion of r/n (0 <= r < n), and what is
\* left of r after them
RECURSIVE DivBits(_, _, _)
DivBits(r, n, k) ==
    IF k = 0 THEN <<>>
    ELSE IF 2 * r >= n THEN <<1>> \o DivBits(2 * r - n, n, k - 1)
                       ELSE <<0>> \o DivBits(2 * r, n, k - 1)

RECURSIVE DivRem(_, _, _)
DivRem(r, n, k) ==
    IF k = 0 THEN r
    ELSE IF 2 * r >= n THEN DivRem(2 * r - n, n, k - 1)
                       ELSE DivRem(2 * r, n, k - 1)

\* the number of zero bits the expansion of r/n starts with (0 < r < n)
RECURSIVE LeadingZeros(_, _)
LeadingZeros(r, n) == IF 2 * r >= n THEN 0 ELSE 1 + LeadingZeros(2 * r, n)

PadTo(bits, k) == Zeros(k - Len(bits)) \o bits

\* the sum of the first i bits of two bit strings and a carry into the i-th
RECURSIVE AddCarry(_, _, _, _)
AddCarry(a, b, i, carry) ==
    IF i = 0 THEN <<carry>>
    ELSE IF a[i] + b[i] + carry >= 2
    THEN AddCarry(a, b, i - 1, 1) \o <<a[i] + b[i] + carry - 2>>
    ELSE AddCarry(a, b, i - 1, 0) \o <<a[i] + b[i] + carry>>

\* the sum of two bit strings, one bit longer than the longer of them
Add(a, b) ==
    LET k == IF Len(a) > Len(b) THEN Len(a) ELSE Len(b)
    IN  AddCarry(PadTo(a, k), PadTo(b, k), k, 0)

\* bits + 1, one bit longer when the carry runs out of the top
Inc(bits) ==
    LET sum == Add(bits, <<1>>)
    IN  IF sum[1] = 0 THEN Tail(sum) ELSE sum

RECURSIVE StripZeros(_)
StripZeros(bits) ==
    IF bits # <<>> /\ bits[1] = 0 THEN StripZeros(Tail(bits)) ELSE bits

\* bits times a small natural number, exactly
RECURSIVE MulSmall(_, _)
MulSmall(bits, k) ==
    IF k = 0 THEN <<0>>
    ELSE LET twice == MulSmall(bits, k \div 2) \o <<0>>
         IN  IF k % 2 = 1 THEN Add(twice, bits) ELSE twice

\* round to nearest, ties to even: the double nearest to bits * 2^exp, where
\* bits starts with a 1 and sticky tells whether non-zero bits follow it
RoundToDouble(bits, exp, sticky) ==
    IF Len(bits) <= SignificandBits
    THEN [ bits |-> bits \o Zeros(SignificandBits - Len(bits)),
           exp  |-> exp - (SignificandBits - Len(bits)) ]
    ELSE LET kept  == SubSeq(bits, 1, SignificandBits)
             guard == bits[SignificandBits + 1]
             rest  == \/ sticky
                      \/ \E i \in (SignificandBits + 2)..Len(bits) : bits[i] = 1
             up    == guard = 1 /\ (rest \/ kept[SignificandBits] = 1)
             sig   == IF up THEN Inc(kept) ELSE kept
             e     == exp + (Len(bits) - SignificandBits)
         IN  IF Len(sig) > SignificandBits
             THEN [ bits |-> SubSeq(sig, 1, SignificandBits), exp |-> e + 1 ]
             ELSE [ bits |-> sig, exp |-> e ]

\* the double c / n for integers 0 < c < n
Divide(c, n) ==
    LET z == LeadingZeros(c, n)
        r == DivRem(c, n, z)
        k == SignificandBits + 1
    IN  RoundToDouble(DivBits(r, n, k), 0 - (z + k), DivRem(r, n, k) # 0)

\* the double x * k for a small natural number k
Times(x, k) == RoundToDouble(StripZeros(MulSmall(x.bits, k)), x.exp, FALSE)

RECURSIVE BitsToNat(_)
BitsToNat(bits) ==
    IF bits = <<>> THEN 0
    ELSE 2 * BitsToNat(SubSeq(bits, 1, Len(bits) - 1)) + bits[Len(bits)]

\* Math.round(x) for a double 0 < x < 2^31: the nearest integer, the larger
\* one when x lies halfway
MathRound(x) ==
    LET intLen == SignificandBits + x.exp
    IN  IF intLen < 0 THEN 0
        ELSE IF intLen >= SignificandBits
        THEN BitsToNat(x.bits \o Zeros(intLen - SignificandBits))
        ELSE BitsToNat(SubSeq(x.bits, 1, intLen)) + x.bits[intLen + 1]

\* app.js:178
\*   totalTasks > 0 ? Math.round((completedTasks / totalTasks) * 100) : 0
completionRate(completedTasks, totalTasks) ==
    IF totalTasks > 0
    THEN IF completedTasks = 0 THEN 0
         ELSE IF completedTasks = totalTasks THEN 100
         ELSE MathRound(Times(Divide(completedTasks, totalTasks), 100))
    ELSE 0

\* an HTTP response: status code, the body's `success` field ("true", "false",
\* or "absent" when the body has none), whether the body has a `message`, and
\* the statistics carried in `data` (<<>> when there are none)
Response(route, status, success, message, stats) ==
    [ route |-> route, status |-> status, success |-> success,
      message |-> message, stats |-> stats ]

NoResponse == Response("none", 0, "absent", FALSE, <<>>)

----------------------------------------------------------------------------
\* no utility of taskUtils.js has been called
NoCall == [ fn |-> "none" ]

\* a part of the program that a specification leaves out
NotStarted == [ pc |-> "none" ]

InitBeyond ==
    /\ arr = NoCall
    /\ out = NoCall
    /\ loop = NotStarted
    /\ tmo = NotStarted
    /\ proc = NotStarted

(* Initial state: taskManager.js:18, `let tasks = []`. *)

Init ==
    /\ tasks = <<>>
    /\ heap = << >>
    /\ nextRef = 1
    /\ now = ClockStart
    /\ ret = RetVoid("init")
    /\ muts = 0
    /\ res = NoResponse
    /\ InitBeyond

\* time passes between two calls
Tick ==
    /\ now < ClockStart + MaxClock
    /\ now' = now + 1
    /\ UNCHANGED <<tasks, heap, nextRef, ret, muts>>

\* taskManager.js:38-57.  r is the outcome of Math.random(); the clock advances
\* by d1 between generateId's Date.now() and the first new Date(), and by d2
\* between the first and the second new Date().
createTask(title, r, d1, d2) ==
    /\ IF isInvalidTitle(title)
       THEN /\ ret' = Threw("create", "InvalidTitle")
            /\ heap' = Collect(heap, tasks, ret')
            /\ UNCHANGED <<tasks, nextRef, now>>
       ELSE /\ nextRef <= MaxCreates
            /\ now + d1 + d2 <= ClockStart + MaxClock
            /\ LET task == newTask(generateId(now, r), title.str,
                                   now + d1, now + d1 + d2)
               IN  /\ tasks' = push(tasks, nextRef)
                   /\ ret' = RetTask("create", nextRef)
                   /\ heap' = Collect(heap @@ (nextRef :> task), tasks', ret')
            /\ now' = now + d1 + d2
            /\ nextRef' = nextRef + 1
    /\ UNCHANGED muts

\* a rejected title throws before any random number or clock reading is taken
Draws(title, steps) ==
    IF isInvalidTitle(title)
    THEN { << "i", 0, 0 >> }
    ELSE RandSuffixes \X steps \X steps

CreateTask ==
    \E title \in ShortTitleInputs : \E d \in Draws(title, 0..1) :
        createTask(title, d[1], d[2], d[3])

\* taskManager.js:66-69
GetTasks ==
    LET copies == getTasks(heap, tasks)
    IN  /\ ret' = RetList("list", copies.items)
        /\ heap' = Collect(copies.heap, tasks, ret')
        /\ UNCHANGED <<tasks, nextRef, now, muts>>

\* taskManager.js:76-84
getTaskById(taskId) ==
    LET i == findIndex(heap, tasks, taskId)
    IN  /\ ret' = IF i # 0 THEN RetTask("getById", tasks[i]) ELSE RetNull("getById")
        /\ heap' = Collect(heap, tasks, ret')
        /\ UNCHANGED <<tasks, nextRef, now, muts>>

GetTaskById == \E taskId \in KnownIds : getTaskById(taskId)

\* taskManager.js:97-119
updateTaskStatus(taskId, status) ==
    LET i == findIndex(heap, tasks, taskId)
    IN  /\ IF ~includesStatus(status)
           THEN /\ ret' = Threw("updateStatus", "InvalidStatus")
                /\ heap' = Collect(heap, tasks, ret')
           ELSE IF i = 0
           THEN /\ ret' = Threw("updateStatus", "NotFound")
                /\ heap' = Collect(heap, tasks, ret')
           ELSE /\ ret' = RetTask("updateStatus", tasks[i])
                /\ heap' = Collect(updatedHeap(heap, tasks, taskId, status.val, now),
                                   tasks, ret')
        /\ UNCHANGED <<tasks, nextRef, now, muts>>

UpdateTaskStatus ==
    \E taskId \in KnownIds, status \in StatusInputs : updateTaskStatus(taskId, status)

\* taskManager.js:127-138
deleteTask(taskId) ==
    LET index == findIndex(heap, tasks, taskId)
    IN  /\ IF index = 0
           THEN /\ ret' = Threw("deleteById", "NotFound")
                /\ heap' = Collect(heap, tasks, ret')
                /\ UNCHANGED tasks
           ELSE /\ tasks' = splice(tasks, index)
                /\ ret' = RetTask("deleteById", tasks[index])
                /\ heap' = Collect(heap, tasks', ret')
        /\ UNCHANGED <<nextRef, now, muts>>

DeleteTask == \E taskId \in KnownIds : deleteTask(taskId)

\* taskManager.js:143-146
ClearTasksButFirst ==
    /\ tasks' = IF tasks = <<>> THEN tasks ELSE << tasks[1] >>
    /\ ret' = RetVoid("clear")
    /\ heap' = Collect(heap, tasks', ret')
    /\ UNCHANGED <<nextRef, now, muts>>

ClearTasks ==
    /\ tasks' = <<>>
    /\ ret' = RetVoid("clear")
    /\ heap' = Collect(heap, tasks', ret')
    /\ UNCHANGED <<nextRef, now, muts>>

\* taskManager.js:152-154
GetTaskCount ==
    /\ ret' = RetNumber("count", getTaskCount(tasks))
    /\ heap' = Collect(heap, tasks, ret')
    /\ UNCHANGED <<tasks, nextRef, now, muts>>

\* taskManager.js:160-162
GetCompletedTaskCount ==
    /\ ret' = RetNumber("completedCount", getCompletedTaskCount(heap, tasks))
    /\ heap' = Collect(heap, tasks, ret')
    /\ UNCHANGED <<tasks, nextRef, now, muts>>

\* The store driven through its exported operations, with the clock running.
Next ==
    \/ Tick /\ UNCHANGED beyondStore
    \/ CreateTask /\ UNCHANGED beyondStore
    \/ GetTasks /\ UNCHANGED beyondStore
    \/ GetTaskById /\ UNCHANGED beyondStore
    \/ UpdateTaskStatus /\ UNCHANGED beyondStore
    \/ DeleteTask /\ UNCHANGED beyondStore
    \/ ClearTasks /\ UNCHANGED beyondStore
    \/ GetTaskCount /\ UNCHANGED beyondStore
    \/ GetCompletedTaskCount /\ UNCHANGED beyondStore

Spec == Init /\ [][Next]_vars

----------------------------------------------------------------------------
(* The same store, driven with every kind of title (up to and beyond the   *)
(* length limit) while the clock stands still.                             *)

CreateTaskAnyTitle ==
    \E title \in TitleInputs : \E d \in Draws(title, {0}) :
        createTask(title, d[1], d[2], d[3])

NextTitles ==
    \/ CreateTaskAnyTitle /\ UNCHANGED beyondStore
    \/ GetTasks /\ UNCHANGED beyondStore
    \/ GetTaskById /\ UNCHANGED beyondStore
    \/ UpdateTaskStatus /\ UNCHANGED beyondStore
    \/ DeleteTask /\ UNCHANGED beyondStore
    \/ ClearTasks /\ UNCHANGED beyondStore
    \/ GetTaskCount /\ UNCHANGED beyondStore
    \/ GetCompletedTaskCount /\ UNCHANGED beyondStore

SpecTitles == Init /\ [][NextTitles]_vars

----------------------------------------------------------------------------
(* The same store with a caller that writes to the values it was handed.   *)

RetRefs == Range(ret.items) \cup (IF ret.kind = "task" THEN {ret.ref} ELSE {})

\* the fields of a task object, and the object after a caller's write to one
TaskFields == {"id", "title", "status", "createdAt", "updatedAt"}

Overwrite(obj, field) ==
    CASE field = "id" -> [obj EXCEPT !.id = <<"task", 0, "x">>]
      [] field = "title" -> [obj EXCEPT !.title = <<"z">>]
      [] field = "status" -> [obj EXCEPT !.status = "done"]
      [] field = "createdAt" -> [obj EXCEPT !.createdAt = toISOString(0)]
      [] field = "updatedAt" -> [obj EXCEPT !.updatedAt = toISOString(0)]

\* returned.field = value
MutateReturnedTask ==
    /\ muts < MaxMutations
    /\ \E r \in RetRefs, field \in TaskFields :
          heap' = [heap EXCEPT ![r] = Overwrite(@, field)]
    /\ ret' = [ret EXCEPT !.op = "mutate"]
    /\ muts' = muts + 1
    /\ UNCHANGED <<tasks, nextRef, now>>

\* returnedArray.pop()
MutateReturnedArray ==
    /\ muts < MaxMutations
    /\ ret.kind = "list"
    /\ ret.items # <<>>
    /\ ret' = [ret EXCEPT !.op = "mutate", !.items = SubSeq(@, 1, Len(@) - 1)]
    /\ heap' = Collect(heap, tasks, ret')
    /\ muts' = muts + 1
    /\ UNCHANGED <<tasks, nextRef, now>>

CreateTaskNow ==
    \E title \in ShortTitleInputs : \E d \in Draws(title, {0}) :
        createTask(title, d[1], d[2], d[3])

NextCaller ==
    \/ CreateTaskNow /\ UNCHANGED beyondStore
    \/ GetTasks /\ UNCHANGED beyondStore
    \/ GetTaskById /\ UNCHANGED beyondStore
    \/ UpdateTaskStatus /\ UNCHANGED beyondStore
    \/ DeleteTask /\ UNCHANGED beyondStore
    \/ ClearTasks /\ UNCHANGED beyondStore
    \/ GetTaskCount /\ UNCHANGED beyondStore
    \/ GetCompletedTaskCount /\ UNCHANGED beyondStore
    \/ MutateReturnedTask /\ UNCHANGED beyondStore
    \/ MutateReturnedArray /\ UNCHANGED beyondStore

SpecCaller == Init /\ [][NextCaller]_vars

----------------------------------------------------------------------------
(* The request layer: the routes of app.js in front of the store, and the *)
(* response-producing functions of middleware.js.  The clock stands still. *)

\* the envelopes of the task and statistics routes
OkBody(route, status, stats) == Response(route, status, "true", TRUE, stats)
FailBody(route, status) == Response(route, status, "false", TRUE, <<>>)

\* a body without `success` and without a top-level `message`
BareBody(route, status) == Response(route, status, "absent", FALSE, <<>>)

\* values of `title` in the body of a POST: none, blank, valid, not a string,
\* longer than the limit
RequestTitles ==
    ShortTitleInputs \cup { JSNumber(123), JSString(Repeat("a", MaxTitleLength + 1)) }

\* app.js:40-57   POST /api/tasks
PostTask ==
    \E title \in RequestTitles : \E d \in Draws(title, {0}) :
        /\ createTask(title, d[1], d[2], d[3])
        /\ res' = IF ret'.err = "none"
                  THEN OkBody("POST /api/tasks", 201, <<>>)
                  ELSE FailBody("POST /api/tasks", 400)

\* app.js:65-82   GET /api/tasks
ListTasks ==
    /\ GetTasks
    /\ res' = OkBody("GET /api/tasks", 200, <<>>)

\* app.js:88-111   GET /api/tasks/:id
GetTask ==
    /\ GetTaskById
    /\ res' = IF ret'.kind = "null"
              THEN FailBody("GET /api/tasks/:id", 404)
              ELSE OkBody("GET /api/tasks/:id", 200, <<>>)

\* app.js:120-137   PUT /api/tasks/:id
PutTask ==
    /\ UpdateTaskStatus
    /\ res' = IF ret'.err = "none"
              THEN OkBody("PUT /api/tasks/:id", 200, <<>>)
              ELSE FailBody("PUT /api/tasks/:id", 400)

\* app.js:143-159   DELETE /api/tasks/:id
DeleteTaskRoute ==
    /\ DeleteTask
    /\ res' = IF ret'.err = "none"
              THEN OkBody("DELETE /api/tasks/:id", 200, <<>>)
              ELSE FailBody("DELETE /api/tasks/:id", 400)

\* app.js:171-179: data of the statistics response, as <<totalTasks,
\* completedTasks, pendingTasks, completionRate>>
statsDataOfHeap(h, ts) ==
    LET totalTasks == Cardinality(DOMAIN h)
        completedTasks == Cardinality({ r \in DOMAIN h : h[r].status = "completed" })
    IN  << totalTasks, completedTasks, totalTasks - completedTasks,
           completionRate(completedTasks, totalTasks) >>

statsData(h, ts) ==
    LET totalTasks == getTaskCount(ts)
        completedTasks == getCompletedTaskCount(h, ts)
    IN  << totalTasks, completedTasks, totalTasks - completedTasks,
           completionRate(completedTasks, totalTasks) >>

\* app.js:165-188   GET /api/stats
GetStats ==
    /\ ret' = RetNumber("completedCount", getCompletedTaskCount(heap, tasks))
    /\ heap' = Collect(heap, tasks, ret')
    /\ res' = OkBody("GET /api/stats", 200, statsData(heap, tasks))
    /\ UNCHANGED <<tasks, nextRef, now, muts>>

\* app.js:203-214   GET /health: the body is getHealthStatus()'s object
GetHealth ==
    /\ res' = BareBody("GET /health", 200)
    /\ UNCHANGED <<tasks, heap, nextRef, now, ret, muts>>

\* app.js:220-222   GET /: the front end's HTML file
ServeIndex ==
    /\ res' = BareBody("GET /", 200)
    /\ UNCHANGED <<tasks, heap, nextRef, now, ret, muts>>

\* app.js:227-233   any other route
UnknownRoute ==
    /\ res' = FailBody("404 handler", 404)
    /\ UNCHANGED <<tasks, heap, nextRef, now, ret, muts>>

\* app.js:238-245   a request whose body express.json() cannot parse reaches
\* the global error handler
MalformedBody ==
    /\ res' = FailBody("error handler", 500)
    /\ UNCHANGED <<tasks, heap, nextRef, now, ret, muts>>

\* middleware.js errorHandler: err.statusCode || 500 (0 stands for an error
\* without statusCode)
ErrorStatusCodes == {0, 400, 404}

errorHandler ==
    \E statusCode \in ErrorStatusCodes :
        /\ res' = BareBody("errorHandler", IF statusCode = 0 THEN 500 ELSE statusCode)
        /\ UNCHANGED <<tasks, heap, nextRef, now, ret, muts>>

\* middleware.js notFoundHandler
notFoundHandler ==
    /\ res' = BareBody("notFoundHandler", 404)
    /\ UNCHANGED <<tasks, heap, nextRef, now, ret, muts>>

\* middleware.js requestTimeout: the timer fires before any response was sent
requestTimeout ==
    /\ res' = BareBody("requestTimeout", 408)
    /\ UNCHANGED <<tasks, heap, nextRef, now, ret, muts>>

NextApi ==
    \/ PostTask /\ UNCHANGED beyondApi
    \/ ListTasks /\ UNCHANGED beyondApi
    \/ GetTask /\ UNCHANGED beyondApi
    \/ PutTask /\ UNCHANGED beyondApi
    \/ DeleteTaskRoute /\ UNCHANGED beyondApi
    \/ GetStats /\ UNCHANGED beyondApi
    \/ GetHealth /\ UNCHANGED beyondApi
    \/ ServeIndex /\ UNCHANGED beyondApi
    \/ UnknownRoute /\ UNCHANGED beyondApi
    \/ MalformedBody /\ UNCHANGED beyondApi

SpecApi == Init /\ [][NextApi]_vars

\* the application with the handlers of middleware.js in use as well
NextMiddleware ==
    \/ NextApi
    \/ errorHandler /\ UNCHANGED beyondApi
    \/ notFoundHandler /\ UNCHANGED beyondApi
    \/ requestTimeout /\ UNCHANGED beyondApi

SpecMiddleware == Init /\ [][NextMiddleware]_vars

----------------------------------------------------------------------------
(* The statistics route over stores of up to MaxStatTasks tasks: the store *)
(* after n creates, one per millisecond, and the completion of the first c *)
(* tasks.                                                                  *)

StoredTask(i, c, n) ==
    LET t == ClockStart + (i - 1)
        task == newTask(generateId(t, "i"), <<"a">>, t, t)
    IN  IF i <= c THEN setStatus(task, "completed", ClockStart + n) ELSE task

InitStats ==
    \E n \in 0..MaxStatTasks : \E c \in 0..n :
        /\ tasks = [ i \in 1..n |-> i ]
        /\ heap = [ i \in 1..n |-> StoredTask(i, c, n) ]
        /\ nextRef = n + 1
        /\ now = ClockStart + n
        /\ ret = RetVoid("init")
        /\ muts = 0
        /\ res = NoResponse
        /\ InitBeyond

NextStats ==
    \/ GetStats /\ UNCHANGED beyondApi
    \/ GetHealth /\ UNCHANGED beyondApi

SpecStats == InitStats /\ [][NextStats]_vars

----------------------------------------------------------------------------
(* Properties *)

Live == 1..Len(tasks)
Stored(i) == heap[tasks[i]]

\* what list(), getById(), count() and completedCount() report in a state
Observable(h, ts) ==
    << StoreView(h, ts), getTaskCount(ts), getCompletedTaskCount(h, ts) >>

\* C1: a Task returned by create, getById, updateStatus or deleteById is a
\* copy: a caller's write to a field of the returned object never changes
\* what list(), getById(), count() and completedCount() report.
C1_ReturnedTaskIsCopy ==
    [][ (ret'.op = "mutate" /\ ret.kind = "task")
            => Observable(heap', tasks') = Observable(heap, tasks) ]_vars

\* C2: list() returns a snapshot: it holds the stored tasks' values at the
\* time of the call, and a caller's write to the returned array or to a task
\* object in it changes neither the store nor what list() reports.
C2_ListIsSnapshot ==
    /\ [](ret.op = "list" => StoreView(heap, ret.items) = StoreView(heap, tasks))
    /\ [][ (ret'.op = "mutate" /\ ret.kind = "list")
            => Observable(heap', tasks') = Observable(heap, tasks) ]_vars

\* a caller has written to a listed copy, which now differs from the stored task
C2_Witness ==
    /\ ret.op = "mutate"
    /\ ret.kind = "list"
    /\ Len(ret.items) = Len(tasks)
    /\ \E i \in Live : heap[ret.items[i]] # Stored(i)

\* C3: a title longer than 200 characters after trimming is rejected, so
\* every task held in the store has a title of 1 to 200 characters.
C3_TitleLengthBounded ==
    \A i \in Live :
        /\ Len(Stored(i).title) >= 1
        /\ Len(Stored(i).title) <= MaxTitleLength

\* the rejected kinds of title: missing, not a string, empty or blank
MissingOrBlank(title) ==
    \/ title.tag # "string"
    \/ \A k \in 1..Len(title.str) : title.str[k] \in WhiteSpace

BadTitles == { t \in TitleInputs : MissingOrBlank(t) }

\* the call threw InvalidTitle and the store is as it was
RejectedUnchanged ==
    /\ ret'.err = "InvalidTitle"
    /\ tasks' = tasks
    /\ Observable(heap', tasks') = Observable(heap, tasks)

\* C4: create fails for every title that is missing, not a string, empty or
\* white space only, and the failed call leaves the store unchanged (no step
\* with another outcome is a create of such a title).
C4_BadTitleRejected ==
    [][ (ret'.op = "create" /\ ~RejectedUnchanged) =>
            \A title \in BadTitles, r \in RandSuffixes, d1 \in 0..1, d2 \in 0..1 :
                ~createTask(title, r, d1, d2) ]_vars

\* a create was rejected while the store held a task
C4_Witness ==
    /\ ret.op = "create"
    /\ ret.err = "InvalidTitle"
    /\ Len(tasks) >= 1

\* a valid title: a string of 1 to 200 characters once trimmed
ValidTitle(title) ==
    /\ title.tag = "string"
    /\ Len(trim(title.str)) >= 1
    /\ Len(trim(title.str)) <= MaxTitleLength

ValidTitles == { t \in TitleInputs : ValidTitle(t) }

\* the call returned a new pending task titled with the trimmed input, last in
\* the store, after the tasks held before, which are as they were
AppendedPending(title) ==
    /\ ret'.err = "none"
    /\ ret'.kind = "task"
    /\ heap'[ret'.ref].status = "pending"
    /\ heap'[ret'.ref].title = trim(title.str)
    /\ getTaskCount(tasks') = getTaskCount(tasks) + 1
    /\ tasks'[Len(tasks')] = ret'.ref
    /\ SubSeq(StoreView(heap', tasks'), 1, Len(tasks)) = StoreView(heap, tasks)

\* C5: for a valid title a successful create returns a pending task titled
\* with the trimmed input, appends it as the last element, raises count() by
\* one and leaves every existing task unchanged (no step with another outcome
\* is a create of that title).
C5_CreateAppendsPending ==
    [][ ret'.op = "create" =>
            \A title \in ValidTitles :
                ~AppendedPending(title) =>
                    \A r \in RandSuffixes, d1 \in 0..1, d2 \in 0..1 :
                        ~createTask(title, r, d1, d2) ]_vars

\* a second task was created from a title with white space around it
C5_Witness ==
    /\ ret.op = "create"
    /\ ret.err = "none"
    /\ Len(tasks) >= 2
    /\ tasks[Len(tasks)] = ret.ref
    /\ heap[ret.ref].title = <<"a">>

\* C6: a task returned by a successful create has createdAt = updatedAt,
\* also when the clock advances during the call.
C6_CreatedEqualsUpdated ==
    (ret.op = "create" /\ ret.err = "none")
        => heap[ret.ref].createdAt = heap[ret.ref].updatedAt

\* C7: the ids of live tasks are pairwise distinct, also for tasks created
\* within the same millisecond.
C7_IdsDistinct ==
    \A i \in Live, j \in Live : i # j => Stored(i).id # Stored(j).id

\* C8: after any sequence of create, updateStatus, deleteById and clear
\* calls every live task's status is 'pending' or 'completed'.
C8_StatusInEnum ==
    \A i \in Live : Stored(i).status \in {"pending", "completed"}

\* an update with a status outside the enum was refused while a task was
\* completed
C8_Witness ==
    /\ ret.op = "updateStatus"
    /\ ret.err = "InvalidStatus"
    /\ \E i \in Live : Stored(i).status = "completed"

\* C9: every live task has updatedAt >= createdAt (the clock never goes back).
C9_UpdatedNotBeforeCreated ==
    \A i \in Live : IsoLeq(Stored(i).createdAt, Stored(i).updatedAt)

\* a task was updated in the minute after the one it was created in
C9_Witness ==
    /\ ret.op = "updateStatus"
    /\ ret.err = "none"
    /\ heap[ret.ref].createdAt[1] < heap[ret.ref].updatedAt[1]
    /\ heap[ret.ref].createdAt[3] > heap[ret.ref].updatedAt[3]

LegalStatus(status) ==
    status.tag = "string" /\ (status.val = "pending" \/ status.val = "completed")

LegalStatuses == { s \in StatusInputs : LegalStatus(s) }
IllegalStatuses == StatusInputs \ LegalStatuses

\* a live task has this id
HasLive(taskId) == \E i \in Live : Stored(i).id = taskId

\* the collection and every task's status and updatedAt are as they were
StatusAndStampsKept ==
    /\ tasks' = tasks
    /\ \A i \in Live :
          /\ heap'[tasks[i]].status = Stored(i).status
          /\ heap'[tasks[i]].updatedAt = Stored(i).updatedAt

\* C11: updateStatus fails with InvalidStatus whenever the new status is not
\* exactly 'pending' or 'completed', whether or not the id exists, and with
\* NotFound when the status is valid but no live task has the id; a failed
\* call leaves every task's status and updatedAt unchanged.
C11_UpdateRefusals ==
    [][ ret'.op = "updateStatus" =>
            /\ ret'.err # "none" => StatusAndStampsKept
            /\ ret'.err # "InvalidStatus" =>
                  \A status \in IllegalStatuses, taskId \in KnownIds :
                      ~updateTaskStatus(taskId, status)
            /\ ret'.err # "NotFound" =>
                  \A taskId \in KnownIds :
                      HasLive(taskId) \/ \A status \in LegalStatuses :
                                             ~updateTaskStatus(taskId, status) ]_vars

\* an update of an unknown id was refused while the store held a completed
\* task
C11_Witness ==
    /\ ret.op = "updateStatus"
    /\ ret.err = "NotFound"
    /\ \E i \in Live : Stored(i).status = "completed"

\* the i-th task took the status at the current time and kept its id, title
\* and createdAt; the other tasks and the order of the collection are as they
\* were
UpdatedInPlace(i, status) ==
    /\ heap'[tasks[i]].status = status.val
    /\ heap'[tasks[i]].updatedAt = toISOString(now)
    /\ heap'[tasks[i]].id = Stored(i).id
    /\ heap'[tasks[i]].title = Stored(i).title
    /\ heap'[tasks[i]].createdAt = Stored(i).createdAt
    /\ \A j \in Live \ {i} : heap'[tasks[j]] = Stored(j)
    /\ tasks' = tasks

\* C12: updateStatus with a legal status succeeds for a live task whatever
\* its current status (the same value included); it sets the status and
\* refreshes updatedAt of the target and leaves the target's id, title and
\* createdAt, every other task and the order of the collection unchanged.
C12_UpdateInPlace ==
    [][ ret'.op = "updateStatus" =>
            \A taskId \in KnownIds :
                HasLive(taskId) =>
                    \A status \in LegalStatuses :
                        \/ /\ ret'.err = "none"
                           /\ \E i \in Live :
                                 /\ Stored(i).id = taskId
                                 /\ ret'.ref = tasks[i]
                                 /\ UpdatedInPlace(i, status)
                        \/ ~updateTaskStatus(taskId, status) ]_vars

\* the second of two tasks was set to pending some time after its creation,
\* the first one being completed
C12_Witness ==
    /\ ret.op = "updateStatus"
    /\ ret.err = "none"
    /\ Len(tasks) = 2
    /\ ret.ref = tasks[2]
    /\ Stored(2).status = "pending"
    /\ Stored(2).updatedAt # Stored(2).createdAt
    /\ Stored(1).status = "completed"

\* the task's status and the completed count after updateStatus(id,
\* 'completed') at the current time and updateStatus(id, 'pending') d
\* milliseconds later, and whether updatedAt went back on the way
RoundTrip(i, d) ==
    LET taskId == Stored(i).id
        k  == findIndex(heap, tasks, taskId)
        h1 == updatedHeap(heap, tasks, taskId, "completed", now)
        h2 == updatedHeap(h1, tasks, taskId, "pending", now + d)
    IN  [ status    |-> h2[tasks[k]].status,
          completed |-> getCompletedTaskCount(h2, tasks),
          monotone  |-> /\ IsoLeq(heap[tasks[k]].updatedAt, h1[tasks[k]].updatedAt)
                        /\ IsoLeq(h1[tasks[k]].updatedAt, h2[tasks[k]].updatedAt) ]

\* no successful update moves the updatedAt of its target back
UpdatedAtNeverDecreases ==
    [][ (ret'.op = "updateStatus" /\ ret'.err = "none")
            => IsoLeq(heap[ret'.ref].updatedAt, heap'[ret'.ref].updatedAt) ]_vars

OthersKept(k) ==
    /\ Len(tasks') = Len(tasks) - 1
    /\ \A j \in 1..Len(tasks') :
          heap'[tasks'[j]] = IF j < k THEN Stored(j) ELSE Stored(j + 1)

\* C14: a successful deleteById(id) removes exactly the task with that id and
\* returns it: afterwards getById(id) finds nothing, count() is one less, the
\* other tasks are present and unchanged; and an id that is not live becomes
\* live again only by a create.
C14_DeleteRemovesId ==
    /\ [][ (ret'.op = "deleteById" /\ ret'.err = "none") =>
              \E k \in Live :
                  /\ ret'.ref = tasks[k]
                  /\ heap'[ret'.ref] = Stored(k)
                  /\ findIndex(heap', tasks', Stored(k).id) = 0
                  /\ getTaskCount(tasks') = getTaskCount(tasks) - 1
                  /\ OthersKept(k) ]_vars
    /\ [][ \A j \in 1..Len(tasks') :
              \/ HasLive(heap'[tasks'[j]].id)
              \/ ret'.op = "create" ]_vars

\* the call threw NotFound and the store is as it was
NotFoundUnchanged ==
    /\ ret'.err = "NotFound"
    /\ tasks' = tasks
    /\ Observable(heap', tasks') = Observable(heap, tasks)

\* C15: deleteById fails with NotFound when no live task has the id (an id
\* deleted before included), and the failed call leaves the store unchanged.
C15_DeleteMissingRefused ==
    [][ (ret'.op = "deleteById" /\ ~NotFoundUnchanged) =>
            \A taskId \in KnownIds :
                HasLive(taskId) \/ ~deleteTask(taskId) ]_vars

\* a delete was refused while the store held a task
C15_Witness ==
    /\ ret.op = "deleteById"
    /\ ret.err = "NotFound"
    /\ Len(tasks) >= 1

\* getById's answer for the id: a live task with that id, or null
FoundOrNull(taskId) ==
    /\ ret'.err = "none"
    /\ IF HasLive(taskId)
       THEN /\ ret'.kind = "task"
            /\ ret'.ref \in Range(tasks)
            /\ heap'[ret'.ref].id = taskId
       ELSE ret'.kind = "null"

\* C16: getById never raises and never changes the store; it returns the task
\* when the id is live and null otherwise, whereas updateStatus (with a legal
\* status) and deleteById raise NotFound for the same missing id.
C16_GetByIdTotal ==
    /\ [][ ret'.op = "getById" =>
              /\ tasks' = tasks
              /\ Observable(heap', tasks') = Observable(heap, tasks)
              /\ \A taskId \in KnownIds :
                    FoundOrNull(taskId) \/ ~getTaskById(taskId) ]_vars
    /\ [][ (ret'.op \in {"updateStatus", "deleteById"} /\ ret'.err # "NotFound") =>
              \A taskId \in KnownIds :
                  \/ HasLive(taskId)
                  \/ /\ ~deleteTask(taskId)
                     /\ \A status \in LegalStatuses :
                            ~updateTaskStatus(taskId, status) ]_vars

\* getById answered null while the store held a task
C16_Witness ==
    /\ ret.op = "getById"
    /\ ret.kind = "null"
    /\ Len(tasks) >= 1

\* completed * 100 / total rounded half-up to an integer, 0 for no tasks
RoundHalfUpRate(completed, total) ==
    IF total > 0 THEN (200 * completed + total) \div (2 * total) ELSE 0

\* C17: in every store state the statistics are total = count(), completed =
\* completedCount(), pending = total - completed with 0 <= completed <=
\* total, and completionRate = completed * 100 / total rounded half-up to an
\* integer in 0..100 when total > 0, else 0.
C17_StatsOfStore ==
    res.route = "GET /api/stats" =>
        /\ res.stats[1] = getTaskCount(tasks)
        /\ res.stats[2] = getCompletedTaskCount(heap, tasks)
        /\ res.stats[3] = res.stats[1] - res.stats[2]
        /\ 0 <= res.stats[2]
        /\ res.stats[2] <= res.stats[1]
        /\ res.stats[4] = RoundHalfUpRate(res.stats[2], res.stats[1])
        /\ res.stats[4] \in 0..100

\* the counts of the store as it is: live tasks, completed ones, the others
CountsNow ==
    << Len(tasks),
       Cardinality({ i \in Live : Stored(i).status = "completed" }),
       Cardinality({ i \in Live : Stored(i).status # "completed" }) >>

FailureKept(status) ==
    /\ res'.status = status
    /\ res'.success = "false"
    /\ res'.message
    /\ tasks' = tasks
    /\ Observable(heap', tasks') = Observable(heap, tasks)

Succeeded(status) ==
    /\ res'.status = status
    /\ res'.success = "true"

\* C19: the request layer answers create with 201 on success and 400 on an
\* invalid title; get with 200 on a hit and 404 on not-found; update with 200
\* on success and 400 on an invalid status or a missing id; delete with 200 on
\* success and 400 on a missing id; every failure body has success = false
\* and a message, and a failed request leaves the store unchanged.
C19_StatusCodes ==
    /\ [][ res'.route = "POST /api/tasks" =>
              \A title \in RequestTitles :
                  \/ IF ValidTitle(title) THEN Succeeded(201) ELSE FailureKept(400)
                  \/ \A d \in Draws(title, {0}) :
                        ~createTask(title, d[1], d[2], d[3]) ]_vars
    /\ [][ res'.route = "GET /api/tasks/:id" =>
              \A taskId \in KnownIds :
                  \/ IF HasLive(taskId) THEN Succeeded(200) ELSE FailureKept(404)
                  \/ ~getTaskById(taskId) ]_vars
    /\ [][ res'.route = "PUT /api/tasks/:id" =>
              \A taskId \in KnownIds, status \in StatusInputs :
                  \/ IF LegalStatus(status) /\ HasLive(taskId)
                     THEN Succeeded(200) ELSE FailureKept(400)
                  \/ ~updateTaskStatus(taskId, status) ]_vars
    /\ [][ res'.route = "DELETE /api/tasks/:id" =>
              \A taskId \in KnownIds :
                  \/ IF HasLive(taskId) THEN Succeeded(200) ELSE FailureKept(400)
                  \/ ~deleteTask(taskId) ]_vars

\* C20: every HTTP response carries a boolean `success`: unknown routes give
\* 404 with {success: false, message}, uncaught errors give 500 with
\* {success: false, message}, and the health, not-found, error and timeout
\* responses of the handlers and of the middleware carry `success` too.
C20_EveryResponseHasSuccess ==
    res.route # "none" =>
        /\ res.success \in {"true", "false"}
        /\ res.route = "404 handler" =>
              (res.status = 404 /\ res.success = "false" /\ res.message)
        /\ res.route = "error handler" =>
              (res.status = 500 /\ res.success = "false" /\ res.message)

----------------------------------------------------------------------------
(* taskUtils.js: utilities over an array the caller supplies. *)

\* the longest array a caller hands over
MaxItems == 3

\* JavaScript numbers of these functions: an integer, NaN or Infinity
Finite(n) == [ kind |-> "finite", n |-> n ]
NaN == [ kind |-> "NaN", n |-> 0 ]
Infinity == [ kind |-> "Infinity", n |-> 0 ]

Bool(b) == IF b THEN "true" ELSE "false"

\* a task-like object: `title` and `createdAt` are a string or undefined
TaskObject(title, status, createdAt) ==
    [ title |-> title, status |-> status, createdAt |-> createdAt ]

\* the string toISOString() gives for time t, as a property value
IsoString(t) == JSString(toISOString(t))

\* objects a caller's array can hold: titles that differ only in case, equal
\* and different dates, both statuses, and objects without title or createdAt
TaskObjects ==
    { TaskObject(JSString(<<"b">>), "pending", IsoString(ClockStart)),
      TaskObject(JSString(<<"A">>), "completed", IsoString(ClockStart + 1)),
      TaskObject(JSString(<<"a">>), "pending", IsoString(ClockStart + 1)),
      TaskObject(JSString(<<"a", "b">>), "completed", IsoString(ClockStart + 2)),
      TaskObject(JSUndefined, "pending", IsoString(ClockStart)),
      TaskObject(JSString(<<"b">>), "completed", JSUndefined) }

\* the first argument of a utility: an array, or something else
ArrayOf(items) == [ tag |-> "array", items |-> items ]
NotAnArray(tag) == [ tag |-> tag, items |-> <<>> ]

ArraysUpTo(n) == UNION { [ 1..k -> TaskObjects ] : k \in 0..n }

TaskArguments ==
    { ArrayOf(items) : items \in ArraysUpTo(MaxItems) } \cup
    { NotAnArray("undefined"), NotAnArray("string") }

\* Array.isArray(ts)
isArray(ts) == ts.tag = "array"

\* what a call leaves behind: the argument as it is afterwards, and either the
\* returned value (`same` when it is the argument itself) or the error thrown
Returned(input, same, value) ==
    [ input |-> input, err |-> "none", same |-> same, value |-> value ]
Thrown(input, err) ==
    [ input |-> input, err |-> err, same |-> FALSE, value |-> <<>> ]

\* String.prototype.toLowerCase
toLowerCase(s) ==
    [ i \in 1..Len(s) |-> CASE s[i] = "A" -> "a" [] s[i] = "B" -> "b" [] OTHER -> s[i] ]

\* String.prototype.includes
includes(s, term) ==
    \E i \in 0..(Len(s) - Len(term)) : SubSeq(s, i + 1, i + Len(term)) = term

\* collation weight of a lower-case character
Weight(c) == CASE c = "a" -> 1 [] c = "b" -> 2 [] OTHER -> 0

\* String.prototype.localeCompare, on lower-case strings: -1, 0 or 1
RECURSIVE localeCompare(_, _)
localeCompare(a, b) ==
    IF a = <<>> /\ b = <<>> THEN 0
    ELSE IF a = <<>> THEN -1
    ELSE IF b = <<>> THEN 1
    ELSE IF Weight(Head(a)) < Weight(Head(b)) THEN -1
    ELSE IF Weight(Head(a)) > Weight(Head(b)) THEN 1
    ELSE localeCompare(Tail(a), Tail(b))

\* new Date(v).getTime(): the time an ISO string denotes, NaN for undefined
DateOf(v) ==
    IF v.tag = "string"
    THEN Finite(v.str[1] * 60000 + v.str[2] * 1000 + v.str[3])
    ELSE NaN

\* Array.prototype.filter with a predicate given as the set of kept indices
filter(items, kept) ==
    LET F[i \in 0..Len(items)] ==
            IF i = 0 THEN <<>>
            ELSE IF i \in kept THEN Append(F[i - 1], items[i]) ELSE F[i - 1]
    IN  F[Len(items)]

\* taskUtils.js:14-19
\* !status
noStatus(status) ==
    status.tag \in {"undefined", "null"} \/ (status.tag = "string" /\ status.val = "")

filterByStatusOthers(ts, status) ==
    IF noStatus(status) \/ ~isArray(ts) THEN Returned(ts, TRUE, ts)
    ELSE Returned(ts, FALSE,
             ArrayOf(filter(ts.items,
                 { i \in 1..Len(ts.items) : ts.items[i].status # status.val })))

filterByStatus(ts, status) ==
    IF noStatus(status) \/ ~isArray(ts) THEN Returned(ts, TRUE, ts)
    ELSE Returned(ts, FALSE,
             ArrayOf(filter(ts.items,
                 { i \in 1..Len(ts.items) :
                     ts.items[i].status = status.val })))

\* taskUtils.js:27-36
searchTasks(ts, searchTerm) ==
    IF Falsy(searchTerm) \/ ~isArray(ts) THEN Returned(ts, TRUE, ts)
    ELSE IF typeOf(searchTerm) # "string" THEN Thrown(ts, "TypeError")
    ELSE IF \E i \in 1..Len(ts.items) : ts.items[i].title.tag # "string"
    THEN Thrown(ts, "TypeError")
    ELSE LET term == trim(toLowerCase(searchTerm.str))
         IN  Returned(ts, FALSE,
                 ArrayOf(filter(ts.items,
                     { i \in 1..Len(ts.items) :
                         includes(toLowerCase(ts.items[i].title.str), term) })))

\* Array.prototype.sort is stable: an element goes after those that compare
\* lower and after the equal ones that came before it.  `lower` and `equal`
\* are the pairs of indices the comparator orders that way.
stableSort(items, lower, equal) ==
    LET n == Len(items)
        pos(i) == 1 + Cardinality({ j \in 1..n :
                        <<j, i>> \in lower \/ (<<j, i>> \in equal /\ j < i) })
    IN  [ k \in 1..n |-> items[CHOOSE i \in 1..n : pos(i) = k] ]

Orderings(items) ==
    { [ k \in 1..Len(items) |-> items[p[k]] ] :
        p \in { q \in [ 1..Len(items) -> 1..Len(items) ] :
                  \A i, j \in 1..Len(items) : i # j => q[i] # q[j] } }

\* taskUtils.js:44-55: the orders sortByDate can give.  A comparator that
\* returns NaN (a date is invalid) is not a consistent comparator, and the
\* order is then whatever the engine's algorithm makes of it.
sortByDate(ts, order) ==
    IF ~isArray(ts) THEN { Returned(ts, TRUE, ts) }
    ELSE LET items == ts.items
             n == Len(items)
             date(i) == DateOf(items[i].createdAt)
             diff(i, j) == IF order = "asc" THEN date(i).n - date(j).n
                                            ELSE date(j).n - date(i).n
             sorted == stableSort(items,
                          { p \in (1..n) \X (1..n) : diff(p[1], p[2]) < 0 },
                          { p \in (1..n) \X (1..n) : diff(p[1], p[2]) = 0 })
         IN  IF n >= 2 /\ \E i \in 1..n : date(i) = NaN
             THEN { Returned(ts, FALSE, ArrayOf(s)) : s \in Orderings(items) }
             ELSE { Returned(ts, FALSE, ArrayOf(sorted)) }

\* taskUtils.js:63-78
sortByTitle(ts, order) ==
    IF ~isArray(ts) THEN Returned(ts, TRUE, ts)
    ELSE LET items == ts.items
             n == Len(items)
             titleOf(i) == toLowerCase(items[i].title.str)
             cmp(i, j) == IF order = "asc"
                          THEN localeCompare(titleOf(i), titleOf(j))
                          ELSE localeCompare(titleOf(j), titleOf(i))
         IN  IF n >= 2 /\ \E i \in 1..n : items[i].title.tag # "string"
             THEN Thrown(ts, "TypeError")
             ELSE Returned(ts, FALSE,
                      ArrayOf(stableSort(items,
                          { p \in (1..n) \X (1..n) : cmp(p[1], p[2]) < 0 },
                          { p \in (1..n) \X (1..n) : cmp(p[1], p[2]) = 0 })))

\* taskUtils.js:85-106: total, completed, pending, completionRate of a
\* sequence of objects with a status
getTaskStatisticsRateOfPending(ts) ==
    IF ~isArray(ts) THEN << 0, 0, 0, 0 >>
    ELSE LET total == Len(ts.items)
             pending == Cardinality({ i \in 1..total : ts.items[i].status = "pending" })
             completed == Cardinality({ i \in 1..total : ts.items[i].status = "completed" })
         IN  << total, completed, pending, completionRate(pending, total) >>

getTaskStatistics(ts) ==
    IF ~isArray(ts) THEN << 0, 0, 0, 0 >>
    ELSE LET total == Len(ts.items)
             pending == Cardinality({ i \in 1..total : ts.items[i].status = "pending" })
             completed == Cardinality({ i \in 1..total : ts.items[i].status = "completed" })
         IN  << total, completed, pending, completionRate(completed, total) >>

\* Math.ceil(totalItems / pageSize), for a length and an integer
ceilOfQuotient(totalItems, pageSize) ==
    IF pageSize = 0 THEN (IF totalItems = 0 THEN NaN ELSE Infinity)
    ELSE IF pageSize > 0 THEN Finite((totalItems + pageSize - 1) \div pageSize)
    ELSE Finite(-(totalItems \div (-pageSize)))

Min(a, b) == IF a < b THEN a ELSE b
Max(a, b) == IF a > b THEN a ELSE b

\* taskUtils.js:130   Math.max(1, Math.min(page, totalPages || 1))
clampPageBelowOnly(page, totalPages) == Max(1, page)

clampPage(page, totalPages) ==
    IF totalPages.kind = "NaN" \/ (totalPages.kind = "finite" /\ totalPages.n = 0)
    THEN Max(1, Min(page, 1))
    ELSE IF totalPages.kind = "Infinity" THEN Max(1, page)
    ELSE Max(1, Min(page, totalPages.n))

\* Array.prototype.slice(start, end): a negative index counts from the end
sliceFromNext(items, start, end) ==
    LET relative(k) == IF k < 0 THEN Max(Len(items) + k, 0) ELSE Min(k, Len(items))
    IN  SubSeq(items, relative(start) + 2, relative(end))

slice(items, start, end) ==
    LET relative(k) == IF k < 0 THEN Max(Len(items) + k, 0) ELSE Min(k, Len(items))
    IN  SubSeq(items, relative(start) + 1, relative(end))

\* currentPage < totalPages
lessThan(n, totalPages) ==
    \/ totalPages.kind = "Infinity"
    \/ totalPages.kind = "finite" /\ n < totalPages.n

Page(items, page, pageSize, totalPages, totalItems, hasNextPage, hasPrevPage) ==
    [ tasks |-> items, page |-> page, pageSize |-> pageSize,
      totalPages |-> totalPages, totalItems |-> totalItems,
      hasNextPage |-> hasNextPage, hasPrevPage |-> hasPrevPage ]

DefaultPageSize == 10

\* taskUtils.js:115-143
paginateTasks(ts, page, pageSize) ==
    IF ~isArray(ts)
    THEN Returned(ts, FALSE,
             Page(<<>>, 1, DefaultPageSize, Finite(0), 0, "absent", "absent"))
    ELSE LET totalItems == Len(ts.items)
             totalPages == ceilOfQuotient(totalItems, pageSize)
             currentPage == clampPage(page, totalPages)
             startIndex == (currentPage - 1) * pageSize
             endIndex == startIndex + pageSize
         IN  Returned(ts, FALSE,
                 Page(slice(ts.items, startIndex, endIndex), currentPage,
                      pageSize, totalPages, totalItems,
                      Bool(lessThan(currentPage, totalPages)),
                      Bool(currentPage > 1)))

\* arguments the callers of the model pass
FilterStatuses ==
    { StatusValue("string", "pending"), StatusValue("string", "completed"),
      StatusValue("string", ""), StatusValue("null", ""), StatusValue("undefined", "") }
SearchTerms ==
    { JSString(<<"a">>), JSString(<<" ", "B", "\t">>), JSString(<<"c">>),
      JSNumber(123), JSUndefined }
Orders == { "asc", "desc" }
PageNumbers == -1 .. (MaxItems + 2)
PageSizes == -1 .. MaxItems

\* a call of a utility: the caller holds no result yet
Call(fn, args, r) ==
    /\ out = NoCall
    /\ out' = [ fn |-> fn, args |-> args, err |-> r.err, same |-> r.same,
                value |-> r.value ]
    /\ arr' = r.input
    /\ UNCHANGED <<tasks, heap, nextRef, now, ret, muts, res, loop, tmo, proc>>

FilterByStatus ==
    \E status \in FilterStatuses :
        Call("filterByStatus", <<status>>, filterByStatus(arr, status))

SearchTasks ==
    \E searchTerm \in SearchTerms :
        Call("searchTasks", <<searchTerm>>, searchTasks(arr, searchTerm))

SortByDate ==
    \E order \in Orders : \E r \in sortByDate(arr, order) :
        Call("sortByDate", <<order>>, r)

SortByTitle ==
    \E order \in Orders : Call("sortByTitle", <<order>>, sortByTitle(arr, order))

PaginateTasks ==
    \E page \in PageNumbers, pageSize \in PageSizes :
        Call("paginateTasks", <<page, pageSize>>, paginateTasks(arr, page, pageSize))

\* the caller lets go of the result
Discard ==
    /\ out # NoCall
    /\ out' = NoCall
    /\ UNCHANGED <<tasks, heap, nextRef, now, ret, muts, res, arr, loop, tmo, proc>>

InitUtils ==
    /\ tasks = <<>>
    /\ heap = << >>
    /\ nextRef = 1
    /\ now = ClockStart
    /\ ret = RetVoid("init")
    /\ muts = 0
    /\ res = NoResponse
    /\ arr \in TaskArguments
    /\ out = NoCall
    /\ loop = NotStarted
    /\ tmo = NotStarted
    /\ proc = NotStarted

NextUtils ==
    \/ FilterByStatus
    \/ SearchTasks
    \/ SortByDate
    \/ SortByTitle
    \/ PaginateTasks
    \/ Discard

SpecUtils == InitUtils /\ [][NextUtils]_vars

----------------------------------------------------------------------------
(* Properties of the utilities. *)

\* the last call was fn, on an array
CalledOnArray(fn) == out.fn = fn /\ isArray(arr)

\* the least number of pages of pageSize items that hold n items
PagesFor(n, pageSize) ==
    CHOOSE k \in 0..n : k * pageSize >= n /\ (k = 0 \/ (k - 1) * pageSize < n)

\* the page a request for `page` is answered with
ClampedPage(page, totalPages) ==
    IF totalPages = 0 \/ page < 1 THEN 1
    ELSE IF page > totalPages THEN totalPages ELSE page

\* C21: for a page size of at least 1, paginateTasks answers any page number
\* (zero, negative, beyond the end) with a page in 1..totalPages, or page 1
\* when there are no items; it returns that page's at most pageSize items and
\* reports totalPages = ceil(totalItems / pageSize), totalItems,
\* hasNextPage = (page < totalPages) and hasPrevPage = (page > 1).
C21_PaginateClamps ==
    [][ (out'.fn = "paginateTasks" /\ isArray(arr) /\ out'.args[2] >= 1) =>
            LET page == out'.args[1]
                pageSize == out'.args[2]
                n == Len(arr.items)
                totalPages == PagesFor(n, pageSize)
                current == ClampedPage(page, totalPages)
                first == (current - 1) * pageSize + 1
                last == Min(current * pageSize, n)
                v == out'.value
            IN  /\ out'.err = "none"
                /\ v.page = current
                /\ v.page = 1 \/ v.page \in 1..totalPages
                /\ v.totalPages = Finite(totalPages)
                /\ v.totalItems = n
                /\ v.pageSize = pageSize
                /\ Len(v.tasks) <= pageSize
                /\ v.tasks = [ i \in 1..(last - first + 1) |-> arr.items[first + i - 1] ]
                /\ v.hasNextPage = Bool(current < totalPages)
                /\ v.hasPrevPage = Bool(current > 1) ]_vars

\* a page beyond the end was asked for and the last, shorter page was returned
C21_Witness ==
    /\ CalledOnArray("paginateTasks")
    /\ out.args[2] = 2
    /\ out.args[1] > out.value.totalPages.n
    /\ out.value.page = 2
    /\ Len(out.value.tasks) = 1
    /\ out.value.hasPrevPage = "true"
    /\ out.value.hasNextPage = "false"

\* C22: the filter, search, sort and pagination utilities never raise on
\* malformed input (a non-array argument, a non-string search term, tasks
\* without title or createdAt, a page size of zero or less): none throws, and
\* pagination reports a finite totalPages, totalItems and both page flags.
C22_NeverRaises ==
    out.fn # "none" =>
        /\ out.err = "none"
        /\ out.fn = "paginateTasks" =>
              /\ out.value.totalPages.kind = "finite"
              /\ out.value.totalPages.n >= 0
              /\ out.value.totalItems >= 0
              /\ out.value.hasNextPage \in {"true", "false"}
              /\ out.value.hasPrevPage \in {"true", "false"}

\* what a filterByStatus step must give when `absent` are the status values
\* that mean "no filter": the argument itself for those, and otherwise a new
\* array of the tasks with that status, in their order; the argument stays as
\* it was
FiltersExactly(absent) ==
    (out'.fn = "filterByStatus" /\ isArray(arr)) =>
        LET status == out'.args[1]
        IN  /\ out'.err = "none"
            /\ arr' = arr
            /\ IF status \in absent
               THEN out'.same /\ out'.value = arr
               ELSE out'.value =
                        ArrayOf(SelectSeq(arr.items, LAMBDA t : t.status = status.val))

\* C23 as stated: only a null or absent status means "no filter"
C23_FilterNullOrAbsent ==
    [][ FiltersExactly({ StatusValue("null", ""), StatusValue("undefined", "") }) ]_vars

\* C23: filterByStatus returns exactly the tasks whose status equals the given
\* status, in their original order and without modifying the input; a null,
\* absent or empty status returns the input unchanged.
C23_FilterByStatus ==
    [][ FiltersExactly({ StatusValue("null", ""), StatusValue("undefined", ""),
                         StatusValue("string", "") }) ]_vars

\* two of three tasks were kept, in their order
C23_Witness ==
    /\ CalledOnArray("filterByStatus")
    /\ out.args[1] = StatusValue("string", "completed")
    /\ Len(arr.items) = 3
    /\ arr.items[2].status = "pending"
    /\ out.value.items = << arr.items[1], arr.items[3] >>
    /\ arr.items[1] # arr.items[3]

\* s is t with its elements in some other order
IsPermutation(s, t) ==
    /\ Len(s) = Len(t)
    /\ \A x \in Range(s) \cup Range(t) :
          Cardinality({ i \in 1..Len(s) : s[i] = x }) =
          Cardinality({ i \in 1..Len(t) : t[i] = x })

\* the key orders two neighbours the requested way; before(a, b) says that
\* key a does not come after key b in ascending order
Ordered(s, order, before(_, _)) ==
    \A i \in 1..(Len(s) - 1) :
        IF order = "asc" THEN before(s[i], s[i + 1]) ELSE before(s[i + 1], s[i])

DateNotAfter(a, b) == DateOf(a.createdAt).n <= DateOf(b.createdAt).n

TitleNotAfter(a, b) ==
    localeCompare(toLowerCase(a.title.str), toLowerCase(b.title.str)) <= 0

\* a sort step returned a new array, a permutation of the argument in the
\* requested order of the key, and left the argument as it was
SortsBy(fn, before(_, _)) ==
    /\ out'.err = "none"
    /\ ~out'.same
    /\ arr' = arr
    /\ IsPermutation(out'.value.items, arr.items)
    /\ Ordered(out'.value.items, out'.args[1], before)

\* C24: sortByDate and sortByTitle return a new sequence that is a
\* permutation of the input ordered by createdAt (resp. title, compared
\* without regard to case) in the requested direction, and leave the input
\* unmodified, for every input array and either order.
C24_SortsEveryInput ==
    [][ /\ (out'.fn = "sortByDate" /\ isArray(arr)) => SortsBy("sortByDate", DateNotAfter)
        /\ (out'.fn = "sortByTitle" /\ isArray(arr)) => SortsBy("sortByTitle", TitleNotAfter)
      ]_vars

\* C30: for any task array and any page size of at least 1, the pages
\* paginateTasks returns for page numbers 1..totalPages partition the input:
\* their `tasks`, concatenated in page order, are the input; every page but
\* the last has exactly pageSize items; and the input array is not modified.
C30_PagesPartition ==
    [][ (out'.fn = "paginateTasks" /\ isArray(arr) /\ out'.args[2] >= 1) =>
            LET pageSize == out'.args[2]
                totalPages == out'.value.totalPages.n
                pageOf(k) == paginateTasks(arr, k, pageSize)
                Concat[k \in 0..totalPages] ==
                    IF k = 0 THEN <<>> ELSE Concat[k - 1] \o pageOf(k).value.tasks
            IN  /\ arr' = arr
                /\ Concat[totalPages] = arr.items
                /\ \A k \in 1..totalPages :
                      /\ pageOf(k).input = arr
                      /\ pageOf(k).value.page = k
                      /\ k < totalPages => Len(pageOf(k).value.tasks) = pageSize ]_vars

\* three tasks in pages of two: the first page is full and another follows
C30_Witness ==
    /\ CalledOnArray("paginateTasks")
    /\ Len(arr.items) = 3
    /\ out.args = << 1, 2 >>
    /\ out.value.totalPages = Finite(2)
    /\ out.value.tasks = SubSeq(arr.items, 1, 2)
    /\ out.value.hasNextPage = "true"

----------------------------------------------------------------------------
(* The statistics utility against the statistics route. *)

\* list(): the array of copies getTasks returns
ListedTasks ==
    LET copies == getTasks(heap, tasks)
    IN  ArrayOf(StoreView(copies.heap, copies.items))

\* C29: in every reachable state of the store, getTaskStatistics applied to
\* list() gives the total, completed, pending and completionRate that the
\* stats route reports as totalTasks, completedTasks, pendingTasks and
\* completionRate; the pending counted by status are total minus completed.
C29_StatisticsAgree ==
    LET stats == getTaskStatistics(ListedTasks)
    IN  /\ stats = statsData(heap, tasks)
        /\ stats[3] = stats[1] - stats[2]
        /\ res.route = "GET /api/stats" => res.stats = stats

\* the route has just reported one completed task of two
C29_Witness ==
    /\ res.route = "GET /api/stats"
    /\ res.stats = << 2, 1, 1, 50 >>
    /\ getTaskStatistics(ListedTasks) = << 2, 1, 1, 50 >>

----------------------------------------------------------------------------
(* clear(). *)

\* C26: clear() removes all tasks from any state: afterwards count() and
\* completedCount() are 0, list() is empty and getById finds none of the ids
\* that were live; a create that follows starts from the empty collection.
C26_ClearEmpties ==
    [][ /\ ret'.op = "clear" =>
              /\ getTaskCount(tasks') = 0
              /\ getCompletedTaskCount(heap', tasks') = 0
              /\ StoreView(heap', tasks') = <<>>
              /\ \A taskId \in KnownIds : findIndex(heap', tasks', taskId) = 0
        /\ (ret.op = "clear" /\ ret'.op = "create" /\ ret'.err = "none") =>
              /\ getTaskCount(tasks') = 1
              /\ StoreView(heap', tasks') = << heap'[ret'.ref] >>
      ]_vars

\* clear() has just returned, after two tasks had been created
C26_Witness ==
    /\ ret.op = "clear"
    /\ nextRef = 3
    /\ tasks = <<>>

----------------------------------------------------------------------------
(* app.js under several clients.  A request is in flight from the moment it
   is sent; its route handler is a synchronous function, run by the event
   loop as one callback: the store's check (validation, find/findIndex) and
   its mutation follow each other on the call stack, and so does the
   response.  `loop.running` holds the requests whose handler has begun and
   not returned, `loop.serial` the store that results when the operations are
   applied one after the other, each as a whole, in the order the handlers
   return. *)

Clients == { "c1", "c2" }

Request(op, title, id, status, pc, found, err) ==
    [ op |-> op, title |-> title, id |-> id, status |-> status, pc |-> pc,
      found |-> found, err |-> err ]

NoRequest ==
    Request("none", JSUndefined, NonExistentId, StatusValue("undefined", ""),
            "idle", 0, "none")

\* requests a client can send: POST, PUT and DELETE of /api/tasks
Requests ==
    { Request("create", title, NonExistentId, StatusValue("undefined", ""),
              "queued", 0, "none") : title \in ShortTitleInputs } \cup
    { Request("updateStatus", JSUndefined, id, status, "queued", 0, "none") :
        id \in KnownIds, status \in StatusInputs } \cup
    { Request("deleteById", JSUndefined, id, StatusValue("undefined", ""),
              "queued", 0, "none") : id \in KnownIds }

\* the event loop calls a handler when the call stack is empty; none of the
\* handlers and store functions awaits, so a handler that has begun returns
\* before the next one is called
stackEmptyOrNot(running) == TRUE

stackEmpty(running) == running = {}

\* objects a handler that has found its task still refers to
HeldRefs(reqs) ==
    { reqs[c].found : c \in { d \in Clients : reqs[d].op = "updateStatus"
                                              /\ reqs[d].pc = "checked"
                                              /\ reqs[d].found # 0 } }

\* garbage collection with handlers under way
CollectHeld(h, ts, reqs) == [ r \in (DOMAIN h) \cap (Range(ts) \cup HeldRefs(reqs)) |-> h[r] ]

\* creates that were sent and have not been carried out
PendingCreates ==
    Cardinality({ c \in Clients : loop.reqs[c].op = "create" /\ loop.reqs[c].pc # "idle" })

\* a client sends a request
Send(c) ==
    /\ loop.reqs[c].pc = "idle"
    /\ \E r \in Requests :
          /\ r.op = "create" => nextRef + PendingCreates <= MaxCreates
          /\ loop' = [loop EXCEPT !.reqs[c] = r]
    /\ UNCHANGED <<tasks, heap, nextRef, now, ret, muts, res, arr, out, tmo, proc>>

\* the handler of c's request is called and the store function makes its
\* checks: taskManager.js:40 (title), :100 and :106-107 (status, find),
\* :128-129 (findIndex)
Check(c) ==
    LET r == loop.reqs[c]
        i == findIndex(heap, tasks, r.id)
        checked ==
            CASE r.op = "create" ->
                   [r EXCEPT !.err = IF isInvalidTitle(r.title) THEN "InvalidTitle" ELSE "none"]
              [] r.op = "updateStatus" ->
                   IF ~includesStatus(r.status) THEN [r EXCEPT !.err = "InvalidStatus"]
                   ELSE IF i = 0 THEN [r EXCEPT !.err = "NotFound"]
                   ELSE [r EXCEPT !.found = tasks[i]]
              [] r.op = "deleteById" ->
                   IF i = 0 THEN [r EXCEPT !.err = "NotFound"] ELSE [r EXCEPT !.found = i]
    IN  /\ r.pc = "queued"
        /\ stackEmpty(loop.running)
        /\ loop' = [loop EXCEPT !.reqs[c] = [checked EXCEPT !.pc = "checked"],
                                !.running = @ \cup {c}]
        /\ UNCHANGED <<tasks, heap, nextRef, now, ret, muts, res, arr, out, tmo, proc>>

\* the route of an operation
RouteOf(op) ==
    CASE op = "create" -> "POST /api/tasks"
      [] op = "updateStatus" -> "PUT /api/tasks/:id"
      [] op = "deleteById" -> "DELETE /api/tasks/:id"

\* the operation of request r applied as a whole to store s, with id and
\* time as given: the store afterwards and the operation's outcome
Applied(s, r, id, t) ==
    LET i == findIndex(s.heap, s.tasks, r.id)
    IN  CASE r.op = "create" ->
               IF isInvalidTitle(r.title) THEN [s EXCEPT !.err = "InvalidTitle"]
               ELSE [ tasks |-> push(s.tasks, s.next),
                      heap |-> s.heap @@ (s.next :> newTask(id, r.title.str, t, t)),
                      next |-> s.next + 1, err |-> "none" ]
          [] r.op = "updateStatus" ->
               IF ~includesStatus(r.status) THEN [s EXCEPT !.err = "InvalidStatus"]
               ELSE IF i = 0 THEN [s EXCEPT !.err = "NotFound"]
               ELSE [s EXCEPT !.heap = updatedHeap(s.heap, s.tasks, r.id, r.status.val, t),
                              !.err = "none"]
          [] r.op = "deleteById" ->
               IF i = 0 THEN [s EXCEPT !.err = "NotFound"]
               ELSE [ tasks |-> splice(s.tasks, i),
                      heap |-> [ x \in DOMAIN s.heap \ {s.tasks[i]} |-> s.heap[x] ],
                      next |-> s.next, err |-> "none" ]

\* the handler goes on: the store function mutates what it has found and
\* returns or throws, and the route answers (app.js:40-57, 120-137, 143-159)
Finish(c) ==
    LET r == loop.reqs[c]
        reqs == [loop.reqs EXCEPT ![c] = NoRequest]
    IN  /\ r.pc = "checked"
        /\ c \in loop.running
        /\ \E suffix \in RandSuffixes :
              LET id == generateId(now, suffix)
                  \* tasks.splice(index, 1) of an index beyond the end removes
                  \* nothing, and deletedTask.title then throws
                  gone == r.op = "deleteById" /\ r.err = "none" /\ r.found > Len(tasks)
                  err == IF gone THEN "TypeError" ELSE r.err
              IN  /\ CASE r.op = "create" /\ r.err = "none" ->
                            /\ tasks' = push(tasks, nextRef)
                            /\ heap' = CollectHeld(
                                           heap @@ (nextRef :> newTask(id, r.title.str, now, now)),
                                           tasks', reqs)
                            /\ nextRef' = nextRef + 1
                       [] r.op = "updateStatus" /\ r.err = "none" ->
                            /\ heap' = CollectHeld(
                                           [heap EXCEPT ![r.found] = setStatus(@, r.status.val, now)],
                                           tasks, reqs)
                            /\ UNCHANGED <<tasks, nextRef>>
                       [] r.op = "deleteById" /\ r.err = "none" /\ ~gone ->
                            /\ tasks' = splice(tasks, r.found)
                            /\ heap' = CollectHeld(heap, tasks', reqs)
                            /\ UNCHANGED nextRef
                       [] OTHER ->
                            /\ heap' = CollectHeld(heap, tasks, reqs)
                            /\ UNCHANGED <<tasks, nextRef>>
                  /\ res' = IF err = "none"
                            THEN OkBody(RouteOf(r.op), IF r.op = "create" THEN 201 ELSE 200, <<>>)
                            ELSE FailBody(RouteOf(r.op), 400)
                  /\ loop' = [ running |-> loop.running \ {c},
                               reqs |-> reqs,
                               serial |-> Applied(loop.serial, r, id, now) ]
        /\ UNCHANGED <<now, ret, muts, arr, out, tmo, proc>>

InitConcurrent ==
    /\ tasks = <<>>
    /\ heap = << >>
    /\ nextRef = 1
    /\ now = ClockStart
    /\ ret = RetVoid("init")
    /\ muts = 0
    /\ res = NoResponse
    /\ arr = NoCall
    /\ out = NoCall
    /\ loop = [ running |-> {}, reqs |-> [ c \in Clients |-> NoRequest ],
                serial |-> [ tasks |-> <<>>, heap |-> << >>, next |-> 1, err |-> "none" ] ]
    /\ tmo = NotStarted
    /\ proc = NotStarted

NextConcurrent ==
    \/ \E c \in Clients : Send(c)
    \/ \E c \in Clients : Check(c)
    \/ \E c \in Clients : Finish(c)

SpecConcurrent == InitConcurrent /\ [][NextConcurrent]_vars

\* the check of a handler under way still describes the store
LookupStands(r) ==
    LET i == findIndex(heap, tasks, r.id)
    IN  /\ (r.op = "updateStatus" /\ r.err = "none") => (i # 0 /\ tasks[i] = r.found)
        /\ (r.op = "deleteById" /\ r.err = "none") => (i # 0 /\ i = r.found)
        /\ r.err = "NotFound" => i = 0

\* C25: with requests of several clients in flight, at most one mutation of
\* the collection is in progress at any time; each create, updateStatus and
\* deleteById runs to completion without interleaving with another store
\* operation, so the store is always the result of the operations applied one
\* after the other, with the outcomes they have in that order, and no lookup
\* is invalidated between a handler's check and its mutation.
C25_OneMutationAtATime ==
    /\ Cardinality(loop.running) <= 1
    /\ \A c \in loop.running : LookupStands(loop.reqs[c])
    /\ StoreView(heap, tasks) = StoreView(loop.serial.heap, loop.serial.tasks)
    /\ res.route # "none" => (res.success = "true" <=> loop.serial.err = "none")

\* a delete has found its task and is about to remove it while the other
\* client's update of the same task is in flight and waits
C25_Witness ==
    /\ loop.running = {"c1"}
    /\ loop.reqs["c1"].op = "deleteById"
    /\ loop.reqs["c1"].found = 1
    /\ loop.reqs["c2"].op = "updateStatus"
    /\ loop.reqs["c2"].pc = "queued"
    /\ loop.reqs["c2"].id = loop.reqs["c1"].id
    /\ includesStatus(loop.reqs["c2"].status)

----------------------------------------------------------------------------
(* middleware.js requestTimeout(timeout), in front of a handler that answers
   at some time or never.  Time is counted in units of the model; a timer
   whose time is up is due, and its callback runs when the event loop gets to
   it. *)

\* requests under the middleware, and the longest timeout they are given
MaxRequests == 2
MaxTimeout == 2

\* a request's response object and its timer: `sent` lists the status codes
\* written to the client
Exchange(pc, timer, left, headersSent, ended, finished, sent, threw) ==
    [ pc |-> pc, timer |-> timer, left |-> left, headersSent |-> headersSent,
      ended |-> ended, finished |-> finished, sent |-> sent, threw |-> threw ]

NoExchange == Exchange("new", "none", 0, FALSE, FALSE, FALSE, <<>>, FALSE)

\* middleware.js:243   if (!res.headersSent)
mayAnswerRegardless(headersSent) == TRUE

mayAnswer(headersSent) == ~headersSent

\* clearTimeout(timer): a timer that has not run will not run
clearTimeout(timer) == IF timer = "armed" THEN "cleared" ELSE timer

\* middleware.js:240-256: setTimeout(..., timeout), res.on('finish', ...), next()
TimeoutMiddleware(k) ==
    /\ tmo[k].pc = "new"
    /\ \E timeout \in 1..MaxTimeout :
          tmo' = [tmo EXCEPT ![k].pc = "handler", ![k].timer = "armed",
                             ![k].left = timeout]
    /\ UNCHANGED <<tasks, heap, nextRef, now, ret, muts, res, arr, out, loop, proc>>

\* time passes for every timer that is set
Pass ==
    /\ \E k \in DOMAIN tmo : tmo[k].timer = "armed" /\ tmo[k].left > 0
    /\ tmo' = [ k \in DOMAIN tmo |->
                  IF tmo[k].timer = "armed" /\ tmo[k].left > 0
                  THEN [tmo[k] EXCEPT !.left = @ - 1] ELSE tmo[k] ]
    /\ UNCHANGED <<tasks, heap, nextRef, now, ret, muts, res, arr, out, loop, proc>>

\* the handler starts its answer (res.writeHead, res.write); after a 408 this
\* throws and the handler gives up
HandlerWritesHead(k) ==
    /\ tmo[k].pc = "handler"
    /\ ~tmo[k].headersSent \/ tmo[k].ended
    /\ tmo' = IF tmo[k].headersSent
              THEN [tmo EXCEPT ![k].pc = "done", ![k].threw = TRUE]
              ELSE [tmo EXCEPT ![k].headersSent = TRUE, ![k].sent = Append(@, 200)]
    /\ UNCHANGED <<tasks, heap, nextRef, now, ret, muts, res, arr, out, loop, proc>>

\* the handler completes its answer (res.json, res.end)
HandlerEnds(k) ==
    /\ tmo[k].pc = "handler"
    /\ tmo' = IF tmo[k].ended
              THEN [tmo EXCEPT ![k].pc = "done", ![k].threw = TRUE]
              ELSE [tmo EXCEPT ![k].pc = "done", ![k].headersSent = TRUE,
                               ![k].ended = TRUE,
                               ![k].sent = IF tmo[k].headersSent THEN @ ELSE Append(@, 200)]
    /\ UNCHANGED <<tasks, heap, nextRef, now, ret, muts, res, arr, out, loop, proc>>

\* the response has been handed to the network: 'finish' is emitted and the
\* listener of middleware.js:254 runs
EmitFinish(k) ==
    /\ tmo[k].ended
    /\ ~tmo[k].finished
    /\ tmo' = [tmo EXCEPT ![k].finished = TRUE, ![k].timer = clearTimeout(@)]
    /\ UNCHANGED <<tasks, heap, nextRef, now, ret, muts, res, arr, out, loop, proc>>

\* middleware.js:240-252: the timer's callback runs
TimerFires(k) ==
    /\ tmo[k].timer = "armed"
    /\ tmo[k].left = 0
    /\ tmo' = IF mayAnswer(tmo[k].headersSent)
              THEN [tmo EXCEPT ![k].timer = "fired", ![k].headersSent = TRUE,
                               ![k].ended = TRUE, ![k].sent = Append(@, 408)]
              ELSE [tmo EXCEPT ![k].timer = "fired"]
    /\ UNCHANGED <<tasks, heap, nextRef, now, ret, muts, res, arr, out, loop, proc>>

InitTimeout ==
    /\ tasks = <<>>
    /\ heap = << >>
    /\ nextRef = 1
    /\ now = ClockStart
    /\ ret = RetVoid("init")
    /\ muts = 0
    /\ res = NoResponse
    /\ arr = NoCall
    /\ out = NoCall
    /\ loop = NotStarted
    /\ tmo = [ k \in 1..MaxRequests |-> NoExchange ]
    /\ proc = NotStarted

NextTimeout ==
    \/ \E k \in DOMAIN tmo : TimeoutMiddleware(k)
    \/ Pass
    \/ \E k \in DOMAIN tmo : HandlerWritesHead(k)
    \/ \E k \in DOMAIN tmo : HandlerEnds(k)
    \/ \E k \in DOMAIN tmo : EmitFinish(k)
    \/ \E k \in DOMAIN tmo : TimerFires(k)

SpecTimeout == InitTimeout /\ [][NextTimeout]_vars

Sent408(x) == \E i \in 1..Len(x.sent) : x.sent[i] = 408

\* C27: for a request passing through requestTimeout(t): when the timer's
\* callback runs and no headers have been sent, the 408 'Request timeout' is
\* sent; when the response finishes before that, the timer is cancelled and no
\* 408 is ever sent; and a 408 is never sent once headers have been sent.
C27_TimeoutOr408 ==
    [][ \A k \in DOMAIN tmo :
          LET x == tmo[k]
              y == tmo'[k]
          IN  /\ (x.timer = "armed" /\ y.timer = "fired" /\ ~x.headersSent) =>
                     (y.sent = <<408>> /\ y.headersSent /\ y.ended)
              /\ (~x.finished /\ y.finished /\ x.timer = "armed") =>
                     (y.timer = "cleared" /\ ~Sent408(y))
              /\ x.timer = "cleared" => (y.timer = "cleared" /\ y.sent = x.sent)
              /\ x.headersSent => y.sent = x.sent ]_vars

\* one request was answered 408 by its timer, and the other finished with its
\* own answer, which cancelled its timer
C27_Witness ==
    /\ tmo[1].sent = <<408>>
    /\ tmo[1].timer = "fired"
    /\ tmo[2].sent = <<200>>
    /\ tmo[2].finished
    /\ tmo[2].timer = "cleared"

----------------------------------------------------------------------------
(* server.js: the server and its shutdown on SIGTERM or SIGINT. *)

\* connections open at once, and signals the process is sent
MaxConnections == 2
MaxSignals == 2

\* server.js:37: the delay of the forced exit, in ms; the model's clock
\* advances in steps of OneSecond
ForceDelay == 10000
OneSecond == 1000

\* the process: running or exited with a code, its server (listening, closing
\* once close() was called, closed once 'close' was emitted), the open
\* connections, the callbacks waiting for 'close', and the time left on each
\* timer that was set
Process(state, code, server, conns, signals, listeners, timers) ==
    [ state |-> state, code |-> code, server |-> server, conns |-> conns,
      signals |-> signals, listeners |-> listeners, timers |-> timers ]

\* process.exit(code)
exit(p, code) == [p EXCEPT !.state = "exited", !.code = code]

\* setTimeout(callback, delay)
setTimeoutNever(timers, delay) == timers

setTimeout(timers, delay) == Append(timers, delay)

Due(timers) == \E i \in 1..Len(timers) : timers[i] = 0

\* a client connects while the server listens
Connect ==
    /\ proc.state = "running"
    /\ proc.server = "listening"
    /\ proc.conns < MaxConnections
    /\ proc' = [proc EXCEPT !.conns = @ + 1]
    /\ UNCHANGED <<tasks, heap, nextRef, now, ret, muts, res, arr, out, loop, tmo>>

\* a connection ends
Disconnect ==
    /\ proc.state = "running"
    /\ proc.conns > 0
    /\ proc' = [proc EXCEPT !.conns = @ - 1]
    /\ UNCHANGED <<tasks, heap, nextRef, now, ret, muts, res, arr, out, loop, tmo>>

\* server.js:24-40: SIGTERM or SIGINT arrives and gracefulShutdown runs:
\* server.close(callback) stops the listening (a server that is closing
\* already just gets another callback for 'close'), and a timer is set
GracefulShutdown ==
    /\ proc.state = "running"
    /\ proc.signals < MaxSignals
    /\ \E signal \in {"SIGTERM", "SIGINT"} :
          proc' = [proc EXCEPT !.server = "closing",
                               !.signals = @ + 1,
                               !.listeners = Append(@, signal),
                               !.timers = setTimeout(@, ForceDelay)]
    /\ UNCHANGED <<tasks, heap, nextRef, now, ret, muts, res, arr, out, loop, tmo>>

\* the closing server has no connection left: 'close' is emitted and the
\* first callback runs, server.js:27-30
ServerClosed ==
    /\ proc.state = "running"
    /\ proc.server = "closing"
    /\ proc.conns = 0
    /\ proc' = exit([proc EXCEPT !.server = "closed"], 0)
    /\ UNCHANGED <<tasks, heap, nextRef, now, ret, muts, res, arr, out, loop, tmo>>

\* a second passes; a timer that is due runs before more time passes
Second ==
    /\ proc.state = "running"
    /\ proc.timers # <<>>
    /\ ~Due(proc.timers)
    /\ proc' = [proc EXCEPT !.timers = [ i \in 1..Len(@) |-> @[i] - OneSecond ]]
    /\ UNCHANGED <<tasks, heap, nextRef, now, ret, muts, res, arr, out, loop, tmo>>

\* server.js:33-36: the timer's callback runs
ForcedShutdown ==
    /\ proc.state = "running"
    /\ Due(proc.timers)
    /\ proc' = exit(proc, 1)
    /\ UNCHANGED <<tasks, heap, nextRef, now, ret, muts, res, arr, out, loop, tmo>>

InitShutdown ==
    /\ tasks = <<>>
    /\ heap = << >>
    /\ nextRef = 1
    /\ now = ClockStart
    /\ ret = RetVoid("init")
    /\ muts = 0
    /\ res = NoResponse
    /\ arr = NoCall
    /\ out = NoCall
    /\ loop = NotStarted
    /\ tmo = NotStarted
    /\ proc = Process("running", 0, "listening", 0, 0, <<>>, <<>>)

NextShutdown ==
    \/ Connect
    \/ Disconnect
    \/ GracefulShutdown
    \/ ServerClosed
    \/ Second
    \/ ForcedShutdown

\* Time passes and the event loop runs the callbacks that are due; clients
\* are under no obligation to end their connections.
SpecShutdown ==
    /\ InitShutdown
    /\ [][NextShutdown]_vars
    /\ WF_vars(Second)
    /\ WF_vars(ForcedShutdown)
    /\ WF_vars(ServerClosed)

\* C28: after SIGTERM or SIGINT the process eventually exits, with code 0 if
\* the server has finished closing before the 10 s timer fires and otherwise
\* with code 1 when the timer fires; it does not keep running, also when the
\* signal is received more than once.
C28_ShutdownExits ==
    /\ [](proc.state = "exited" =>
             IF proc.server = "closed"
             THEN proc.code = 0 /\ proc.conns = 0
             ELSE proc.code = 1 /\ Due(proc.timers))
    /\ [](proc.state = "running" =>
             /\ proc.server # "closed"
             /\ \A i \in 1..Len(proc.timers) : proc.timers[i] \in 0..ForceDelay)
    /\ (proc.signals > 0) ~> (proc.state = "exited")

\* two signals came, a client kept its connection, and the first timer made
\* the process exit with code 1 while the second had time left
C28_Witness ==
    /\ proc.state = "exited"
    /\ proc.code = 1
    /\ proc.signals = 2
    /\ proc.conns > 0
    /\ proc.timers[1] = 0
    /\ proc.timers[2] > 0

====
